---- MODULE Spec2Model ----
(***************************************************************************)
(* Model of the detection loop of smoke-classifier/detect_fire.py.         *)
(*                                                                         *)
(* Time is counted in clock units of 1/Res second (time.time() is a        *)
(* float, int(time.time()) is its floor).  Scores are counted in           *)
(* thousandths (0.5 is 500).  Camera names and content hashes (md5) are    *)
(* small numbers, 0 stands for None.                                       *)
(***************************************************************************)
EXTENDS Integers, Sequences, FiniteSets, TLC

\* ---------------------------------------------------------------- bounds
Res == 2
StartTime == 345600
MaxScoreRows == 4
MaxTicks == 3
MaxFiles == 2
MaxDepth == 3
MaxQueue == 21
MaxChecks == 3
MaxCams == 4
MaxSamples == 52

\* ------------------------------------------------------ program constants
FireThreshold == 500
One == 1000
MinUplift == 200
HistoryStartHours == 84
HistoryEndHours == 12
TimeOfDayWindow == 3600
AlertWindow == 7200
SampleWindow == 50
InitialTimePerSample == 3
SleepSeconds == 2
MaxWaitSeconds == 300
SecondsPerDay == 86400

\* the names of the active cameras (dbManager.get_sources) and the md5 values
\* their images take
Cams == 1..2
Hashes == 1..2
NumCams == Cardinality(Cams)
NoCam == 0
NoHash == 0

Max(a, b) == IF a >= b THEN a ELSE b
Min(a, b) == IF a <= b THEN a ELSE b

\* int(time.time()): the whole seconds of a clock value
IntTime(c) == c \div Res

\* (dt.hour * 60 + dt.minute) * 60 + dt.second of datetime.fromtimestamp
SecondsInDay(ts) == ts % SecondsPerDay

\* ---------------------------------------------------------------- files
NoPath == <<0, 0, "none">>
\* img_archive.getImgPath(tmpDir, cameraName, timestamp)
getImgPath(cam, ts) == <<cam, ts, "img">>
\* img_archive.repackFileName with diffMinutes set (genDiffImage)
DiffPath(p) == <<p[1], p[2], "diff">>
\* filePathParts[0] + '_Score' + filePathParts[1] (drawFireBox)
AnnotatedPath(p) == <<p[1], p[2], "score">>

\* ------------------------------------------------------- deferred queue
NoEntry == [timestamp |-> 0, cameraID |-> NoCam, imgPath |-> NoPath,
            md5 |-> NoHash, oldWait |-> 0]

\* timePerSample is the rational num/den
expectedDrainSecondsNum(deferredImages, timeTracker) ==
    Len(deferredImages) * timeTracker.timePerSample[1]

QueueFullTestGt(deferredImages, timeTracker, minusSeconds) ==
    expectedDrainSecondsNum(deferredImages, timeTracker)
        > minusSeconds * timeTracker.timePerSample[2]

\* expectedDrainSeconds(deferredImages, timeTracker) >= minusSeconds
QueueFullTest(deferredImages, timeTracker, minusSeconds) ==
    expectedDrainSecondsNum(deferredImages, timeTracker)
        >= minusSeconds * timeTracker.timePerSample[2]

\* deferredImages[0]['timestamp'] + minusSeconds < currentTime, currentTime
\* being a clock value
HeadAged(head, minusSeconds, currentTime) ==
    (head.timestamp + minusSeconds) * Res < currentTime

getDeferrredImgageInfoAny(deferredImages, timeTracker, minusMinutes, currentTime) ==
    IF minusMinutes = 0 \/ Len(deferredImages) = 0
    THEN [queueFull |-> FALSE, img |-> NoEntry, queue |-> deferredImages]
    ELSE LET minusSeconds == 60 * minusMinutes
             queueFull == QueueFullTest(deferredImages, timeTracker, minusSeconds)
             aged == {i \in 1..Len(deferredImages) :
                        HeadAged(deferredImages[i], minusSeconds, currentTime)}
         IN IF queueFull \/ 1 \in aged
            THEN LET i == IF aged = {} THEN 1
                          ELSE CHOOSE j \in aged : \A k \in aged : k <= j
                 IN [queueFull |-> queueFull, img |-> deferredImages[i],
                     queue |-> SubSeq(deferredImages, 1, i - 1)
                                 \o SubSeq(deferredImages, i + 1, Len(deferredImages))]
            ELSE [queueFull |-> queueFull, img |-> NoEntry, queue |-> deferredImages]

\* returns (queueFull, img) and the queue after `del deferredImages[0]`
getDeferrredImgageInfo(deferredImages, timeTracker, minusMinutes, currentTime) ==
    IF minusMinutes = 0
    THEN [queueFull |-> FALSE, img |-> NoEntry, queue |-> deferredImages]
    ELSE IF Len(deferredImages) = 0
    THEN [queueFull |-> FALSE, img |-> NoEntry, queue |-> deferredImages]
    ELSE LET minusSeconds == 60 * minusMinutes
             queueFull == QueueFullTest(deferredImages, timeTracker, minusSeconds)
         IN IF queueFull \/ HeadAged(deferredImages[1], minusSeconds, currentTime)
            THEN [queueFull |-> queueFull, img |-> deferredImages[1],
                  queue |-> Tail(deferredImages)]
            ELSE [queueFull |-> queueFull, img |-> NoEntry, queue |-> deferredImages]

\* min(2 * 60 * minusMinutes, 5 * 60)
RetryWindow(minusMinutes) == Min(2 * 60 * minusMinutes, MaxWaitSeconds)

\* an unchanged entry is always given another chance
KeepWaitingAlways(timeDiff, oldWait, minusMinutes) == TRUE

KeepWaitingLe(timeDiff, oldWait, minusMinutes) ==
    (timeDiff + oldWait) <= RetryWindow(minusMinutes)

\* (timeDiff + deferredImageInfo['oldWait']) < min(...)
KeepWaiting(timeDiff, oldWait, minusMinutes) ==
    (timeDiff + oldWait) < RetryWindow(minusMinutes)

\* ---------------------------------------------------------- time tracker
initializeTimeTracker ==
    [totalTime |-> 0, numSamples |-> 0, timePerSample |-> <<InitialTimePerSample, 1>>]

\* processingTime and totalTime are clock values
updateTimeTracker(timeTracker, processingTime) ==
    LET total == timeTracker.totalTime + processingTime
        n == timeTracker.numSamples + 1
    IN IF n > SampleWindow
       THEN [totalTime |-> 0, numSamples |-> 0, timePerSample |-> <<total, n * Res>>]
       ELSE [totalTime |-> total, numSamples |-> n,
             timePerSample |-> timeTracker.timePerSample]

\* ------------------------------------------------------- history filter
Boxes == << <<0, 0, 299, 299>>, <<150, 0, 449, 299>> >>

Segment(box, score) ==
    [MinX |-> box[1], MinY |-> box[2], MaxX |-> box[3], MaxY |-> box[4],
     score |-> score]

BoxOf(r) == <<r.MinX, r.MinY, r.MaxX, r.MaxY>>

\* segment_infos.sort(key=lambda x: -x['score']): a stable sort, by insertion
RECURSIVE InsertDesc(_, _)
InsertDesc(sorted, seg) ==
    IF sorted = <<>> THEN <<seg>>
    ELSE IF Head(sorted).score >= seg.score
         THEN <<Head(sorted)>> \o InsertDesc(Tail(sorted), seg)
         ELSE <<seg>> \o sorted

RECURSIVE SortDesc(_)
SortDesc(segs) ==
    IF segs = <<>> THEN <<>>
    ELSE InsertDesc(SortDesc(SubSeq(segs, 1, Len(segs) - 1)), segs[Len(segs)])

\* the rows recordScores builds for one image
ScoreRows(camera, timestamp, segments, minusMinutes) ==
    [i \in 1..Len(segments) |->
        [CameraName |-> camera, Timestamp |-> timestamp,
         MinX |-> segments[i].MinX, MinY |-> segments[i].MinY,
         MaxX |-> segments[i].MaxX, MaxY |-> segments[i].MaxY,
         Score |-> segments[i].score, MinusMinutes |-> minusMinutes,
         SecondsInDay |-> SecondsInDay(timestamp)]]

AtLeastHalf(seg) == seg.score >= FireThreshold

recordScoresAtLeastHalf(table, camera, timestamp, segments, minusMinutes) ==
    table \o ScoreRows(camera, timestamp, SelectSeq(segments, AtLeastHalf),
                       minusMinutes)

recordScores(table, camera, timestamp, segments, minusMinutes) ==
    table \o ScoreRows(camera, timestamp, segments, minusMinutes)

RECURSIVE SumScores(_, _)
SumScores(table, idx) ==
    IF idx = {} THEN 0
    ELSE LET i == CHOOSE j \in idx : TRUE
         IN table[i].Score + SumScores(table, idx \ {i})

MaxScore(table, idx) ==
    CHOOSE m \in {table[i].Score : i \in idx} :
        \A i \in idx : table[i].Score <= m

\* the WHERE clause of sqlTemplate
HistoryWhere(r, camera, timestamp) ==
    /\ r.CameraName = camera
    /\ r.Timestamp > timestamp - 60 * 60 * HistoryStartHours
    /\ r.Timestamp < timestamp - 60 * 60 * HistoryEndHours
    /\ r.SecondsInDay > SecondsInDay(timestamp) - TimeOfDayWindow
    /\ r.SecondsInDay < SecondsInDay(timestamp) + TimeOfDayWindow

\* dbManager.query(sqlStr): GROUP BY MinX,MinY,MaxX,MaxY; avgs is sums/cnt
HistoryQuery(table, camera, timestamp) ==
    LET idx == {i \in 1..Len(table) : HistoryWhere(table[i], camera, timestamp)}
        grp(b) == {i \in idx : BoxOf(table[i]) = b}
    IN {[minx |-> b[1], miny |-> b[2], maxx |-> b[3], maxy |-> b[4],
         cnt |-> Cardinality(grp(b)), sums |-> SumScores(table, grp(b)),
         maxs |-> MaxScore(table, grp(b))] : b \in {BoxOf(table[i]) : i \in idx}}

Threshold2Halfway(maxs) == maxs + One

\* twice the threshold max((maxs + 1)/2, maxs + 0.2)
Threshold2(maxs) == Max(maxs + One, 2 * (maxs + MinUplift))

ClearsThresholdGe(score, maxs) == 2 * score >= Threshold2(maxs)

\* segmentInfo['score'] > threshold
ClearsThreshold(score, maxs) == 2 * score > Threshold2(maxs)

NoSegment ==
    [MinX |-> -1, MinY |-> -1, MaxX |-> -1, MaxY |-> -1, score |-> 0,
     HistAvg |-> <<0, 1>>, HistMax |-> 0, HistNumSamples |-> 0]

\* the selected segment is returned as it came in
EnrichedNot(seg, row) ==
    [MinX |-> seg.MinX, MinY |-> seg.MinY, MaxX |-> seg.MaxX, MaxY |-> seg.MaxY,
     score |-> seg.score, HistAvg |-> <<0, 1>>, HistMax |-> 0, HistNumSamples |-> 0]

Enriched(seg, row) ==
    [MinX |-> seg.MinX, MinY |-> seg.MinY, MaxX |-> seg.MaxX, MaxY |-> seg.MaxY,
     score |-> seg.score, HistAvg |-> <<row.sums, row.cnt>>,
     HistMax |-> row.maxs, HistNumSamples |-> row.cnt]

RowsOfBox(dbResult, seg) ==
    {row \in dbResult : /\ row.minx = seg.MinX /\ row.miny = seg.MinY
                        /\ row.maxx = seg.MaxX /\ row.maxy = seg.MaxY}

\* the loop `for segmentInfo in segments` of postFilter, from index i on
RECURSIVE FilterLoop(_, _, _, _, _)
FilterLoop(segments, i, dbResult, maxFireScore, maxFireSegment) ==
    IF i > Len(segments) THEN maxFireSegment
    ELSE IF segments[i].score < FireThreshold THEN maxFireSegment
    ELSE LET seg == segments[i]
             rows == RowsOfBox(dbResult, seg)
             hit == /\ rows # {}
                    /\ LET row == CHOOSE r \in rows : TRUE
                       IN ClearsThreshold(seg.score, row.maxs)
                    /\ seg.score > maxFireScore
         IN IF hit
            THEN FilterLoop(segments, i + 1, dbResult, seg.score,
                            Enriched(seg, CHOOSE r \in rows : TRUE))
            ELSE FilterLoop(segments, i + 1, dbResult, maxFireScore, maxFireSegment)

\* a filter that lets a segment without history rows through at the 0.5 bar
RECURSIVE FilterLoopNoHistoryClears(_, _, _, _, _)
FilterLoopNoHistoryClears(segments, i, dbResult, maxFireScore, maxFireSegment) ==
    IF i > Len(segments) THEN maxFireSegment
    ELSE IF segments[i].score < FireThreshold THEN maxFireSegment
    ELSE LET seg == segments[i]
             rows == RowsOfBox(dbResult, seg)
             row == IF rows # {} THEN CHOOSE r \in rows : TRUE
                    ELSE [sums |-> 0, cnt |-> 0, maxs |-> 0]
             hit == /\ rows # {} => ClearsThreshold(seg.score, row.maxs)
                    /\ seg.score > maxFireScore
         IN IF hit
            THEN FilterLoopNoHistoryClears(segments, i + 1, dbResult, seg.score,
                                           Enriched(seg, row))
            ELSE FilterLoopNoHistoryClears(segments, i + 1, dbResult, maxFireScore,
                                           maxFireSegment)

postFilterNoHistoryClears(table, camera, timestamp, segments) ==
    IF segments[1].score < FireThreshold
    THEN [fire |-> NoSegment, queried |-> FALSE, rows |-> 0]
    ELSE LET dbResult == HistoryQuery(table, camera, timestamp)
         IN [fire |-> FilterLoopNoHistoryClears(segments, 1, dbResult, 0, NoSegment),
             queried |-> TRUE, rows |-> Cardinality(dbResult)]

postFilterAlwaysQueries(table, camera, timestamp, segments) ==
    LET dbResult == HistoryQuery(table, camera, timestamp)
    IN [fire |-> FilterLoop(segments, 1, dbResult, 0, NoSegment),
        queried |-> TRUE, rows |-> Cardinality(dbResult)]

\* fire: the segment returned (NoSegment for None); queried: whether
\* dbManager.query ran; rows: len(dbResult)
postFilter(table, camera, timestamp, segments) ==
    IF segments[1].score < FireThreshold
    THEN [fire |-> NoSegment, queried |-> FALSE, rows |-> 0]
    ELSE LET dbResult == HistoryQuery(table, camera, timestamp)
         IN [fire |-> FilterLoop(segments, 1, dbResult, 0, NoSegment),
             queried |-> TRUE, rows |-> Cardinality(dbResult)]

\* --------------------------------------------------------------- alerts
\* alerts are suppressed for one hour only
RecentAlertsHalfWindow(table, camera, timestamp) ==
    {i \in 1..Len(table) : /\ table[i].CameraName = camera
                           /\ 2 * table[i].Timestamp > 2 * timestamp - AlertWindow}

RecentAlertsGe(table, camera, timestamp) ==
    {i \in 1..Len(table) : /\ table[i].CameraName = camera
                           /\ table[i].Timestamp >= timestamp - AlertWindow}

\* SELECT * FROM alerts where CameraName='%s' and timestamp > %s
RecentAlerts(table, camera, timestamp) ==
    {i \in 1..Len(table) : /\ table[i].CameraName = camera
                           /\ table[i].Timestamp > timestamp - AlertWindow}

\* driveFileIDs[0] if driveFileIDs else ''
FirstID(driveFileIDs) == IF Len(driveFileIDs) > 0 THEN driveFileIDs[1] ELSE NoPath

checkAndUpdateAlertsLogsAll(table, camera, timestamp, driveFileIDs) ==
    [isNew |-> Cardinality(RecentAlerts(table, camera, timestamp)) = 0,
     table |-> Append(table, [CameraName |-> camera, Timestamp |-> timestamp,
                              ImageID |-> FirstID(driveFileIDs)])]

checkAndUpdateAlerts(table, camera, timestamp, driveFileIDs) ==
    IF Cardinality(RecentAlerts(table, camera, timestamp)) > 0
    THEN [isNew |-> FALSE, table |-> table]
    ELSE [isNew |-> TRUE,
          table |-> Append(table, [CameraName |-> camera, Timestamp |-> timestamp,
                                   ImageID |-> FirstID(driveFileIDs)])]

\* the detection is not recorded
recordDetectionSkipped(table, camera, timestamp, driveFileIDs, fireSegment) == table

recordDetection(table, camera, timestamp, driveFileIDs, fireSegment) ==
    Append(table, [CameraName |-> camera, Timestamp |-> timestamp,
                   MinX |-> fireSegment.MinX, MinY |-> fireSegment.MinY,
                   MaxX |-> fireSegment.MaxX, MaxY |-> fireSegment.MaxY,
                   Score |-> fireSegment.score, HistAvg |-> fireSegment.HistAvg,
                   HistMax |-> fireSegment.HistMax,
                   HistNumSamples |-> fireSegment.HistNumSamples,
                   ImageID |-> FirstID(driveFileIDs)])

\* os.remove of each path in turn; ok is FALSE once a path is missing
\* (FileNotFoundError), and the later removals do not happen
RECURSIVE RemoveFiles(_, _)
RemoveFiles(fs, paths) ==
    IF paths = <<>> THEN [files |-> fs, ok |-> TRUE]
    ELSE IF Head(paths) \notin fs THEN [files |-> fs, ok |-> FALSE]
    ELSE RemoveFiles(fs \ {Head(paths)}, Tail(paths))

\* the paths deleteImageFiles removes, in order
DeletePaths(imgPath, origImgPath, annotatedFile) ==
    <<imgPath>> \o (IF imgPath # origImgPath THEN <<origImgPath>> ELSE <<>>)
                \o (IF annotatedFile # NoPath THEN <<annotatedFile>> ELSE <<>>)

deleteImageFiles(fs, imgPath, origImgPath, annotatedFile) ==
    RemoveFiles(fs, DeletePaths(imgPath, origImgPath, annotatedFile))

\* ---------------------------------------------------------------- state
VARIABLES
    minusMinutes,       \* args.minusMinutes, 0 outside diff mode
    clock,              \* time.time(), in clock units
    cameras,            \* camera['md5'] of each camera, NoHash when absent
    counter,            \* the shared sources counter, modulo len(cameras)
    deferredImages,     \* the deferred queue
    files,              \* the files of the scratch directory
    pc,                 \* "idle", "fetch", "process" or "crashed"
    stage,              \* which call of getNextImage this iteration made last
    reqCamera,          \* the cameraID argument of the running getNextImage
    timeStart,          \* main's timeStart
    queueFull,          \* main's queueFull
    deferredImageInfo,  \* main's deferredImageInfo, NoEntry for None
    cur,                \* the tuple the last getNextImage returned
    timeTracker,        \* processingTimeTracker
    scores,             \* table scores
    detections,         \* table detections
    alerts,             \* table alerts
    report,             \* what the last recordFilterReport did
    ticks,              \* the iterations of main's loop begun
    depth,              \* the nested calls of the running getNextImage
    picks,              \* the cameras the counter selected last, oldest first
    failed,             \* the cameras whose download failed in the running fetch
    err,                \* the exception that ended the process
    workers             \* the checkAndUpdateAlerts calls of processes sharing the ledger

vars == <<minusMinutes, clock, cameras, counter, deferredImages, files,
          pc, stage, reqCamera, timeStart, queueFull, deferredImageInfo, cur,
          timeTracker, scores, detections, alerts, report, ticks, depth,
          picks, failed, err, workers>>

queueVars == <<deferredImages, queueFull, deferredImageInfo>>

\* detection processes that share the tables
Procs == 1..2

\* no process is inside checkAndUpdateAlerts
NoWorkers ==
    [p \in Procs |-> [pc |-> "idle", camera |-> NoCam, timestamp |-> 0,
                      driveFileIDs |-> <<>>, notified |-> FALSE]]

NoFetch == [cameraID |-> NoCam, timestamp |-> 0, imgPath |-> NoPath,
            md5 |-> NoHash, classifyImgPath |-> NoPath]

NoReport == [camera |-> NoCam, timestamp |-> 0, segments |-> <<>>,
             queried |-> FALSE, histRows |-> 0, fire |-> NoSegment,
             scoreRows |-> 0, detectionRows |-> 0, alertRows |-> 0,
             notified |-> FALSE, driveFileIDs |-> <<>>, heartbeats |-> 0]

\* ----------------------------------------------------------- environment
TimeBase == StartTime * Res

\* the instants the clock is observed at, as offsets from TimeBase
Offsets(mm) ==
    LET m == IF mm = 0 THEN 1 ELSE mm
        ms == 60 * m
        w == RetryWindow(m)
    IN IF mm = 0 THEN {0, ms * Res}
       ELSE {0, ms * Res, ms * Res + 1, (w - 1) * Res, w * Res}

Instants == {TimeBase + o : o \in Offsets(minusMinutes)}

\* time passes between two iterations of main's loop; an iteration is short
\* against the clock's instants unless it sleeps
AdvanceTime ==
    /\ pc = "idle"
    /\ \E t \in Instants : t > clock /\ clock' = t
    /\ UNCHANGED <<workers, minusMinutes, picks, failed, depth, ticks, cameras, counter, deferredImages, files,
                   pc, stage, reqCamera, timeStart, queueFull, deferredImageInfo,
                   cur, timeTracker, scores, detections, alerts, report, err>>

\* time.sleep(2): the clock after a sleep of at least SleepSeconds
AfterSleep(c) ==
    LET later == {t \in Instants : t >= c + SleepSeconds * Res}
    IN IF later = {} THEN c + SleepSeconds * Res
       ELSE CHOOSE t \in later : \A u \in later : t <= u

\* ------------------------------------------------------------ main loop
\* every iteration adds to the queue
AdmitsNewAlways(full) == TRUE

\* if not queueFull: addToDeferredImages(...)
AdmitsNew(full) == ~full

\* main, from `timeStart = time.time()` to the first call of getNextImage
TickStart ==
    /\ pc = "idle"
    /\ ticks < MaxTicks
    /\ ticks' = ticks + 1
    /\ timeStart' = clock
    /\ cur' = NoFetch
    /\ report' = NoReport
    /\ IF minusMinutes # 0
       THEN LET r == getDeferrredImgageInfo(deferredImages, timeTracker,
                                            minusMinutes, clock)
            IN /\ queueFull' = r.queueFull
               /\ deferredImageInfo' = r.img
               /\ deferredImages' = r.queue
               /\ IF AdmitsNew(r.queueFull)
                  THEN pc' = "fetch" /\ stage' = "add" /\ reqCamera' = NoCam
                  ELSE IF r.img # NoEntry
                  THEN /\ pc' = "fetch" /\ stage' = "resolve"
                       /\ reqCamera' = r.img.cameraID
                  ELSE pc' = "idle" /\ stage' = "none" /\ reqCamera' = NoCam
       ELSE /\ pc' = "fetch" /\ stage' = "plain" /\ reqCamera' = NoCam
            /\ UNCHANGED queueVars
    /\ UNCHANGED <<workers, minusMinutes, picks, failed, depth, clock, cameras, counter, files,
                   timeTracker, scores, detections, alerts, err>>

\* len(cameras)
LenCameras == Cardinality(DOMAIN cameras)

\* dbManager.getNextSourcesCounter() % len(cameras), and the counter after it
NextIndex == counter % LenCameras
CounterAfter == (counter + 1) % LenCameras

SelectedFirst == IF reqCamera # NoCam THEN reqCamera ELSE 1

\* getNextImage, lines 78-82: the camera of this call
Selected == IF reqCamera # NoCam THEN reqCamera ELSE NextIndex + 1
CounterAfterSelect == IF reqCamera # NoCam THEN counter ELSE CounterAfter

\* the selections made through the counter, the last len(cameras) of them
Picked ==
    IF reqCamera # NoCam THEN picks
    ELSE LET p == Append(picks, Selected)
         IN IF Len(p) > LenCameras THEN Tail(p) ELSE p

\* getNextImage: urlretrieve raises, the call recurses with no cameraID
FetchFail ==
    /\ pc = "fetch"
    /\ counter' = CounterAfterSelect
    /\ reqCamera' = NoCam
    /\ depth < MaxDepth /\ depth' = depth + 1
    /\ picks' = Picked /\ failed' = failed \cup {Selected}
    /\ UNCHANGED <<workers, minusMinutes, ticks, clock, cameras, deferredImages, files,
                   pc, stage, timeStart, queueFull, deferredImageInfo, cur,
                   timeTracker, scores, detections, alerts, report, err>>

NeverDuplicate(cam, md5) == FALSE

\* ('md5' in camera) and (camera['md5'] == md5) and not cameraID
IsDuplicate(cam, md5) == cameras[cam] # NoHash /\ cameras[cam] = md5 /\ reqCamera = NoCam

\* what a returning getNextImage returns
Fetched(md5) ==
    [cameraID |-> Selected, timestamp |-> IntTime(clock),
     imgPath |-> getImgPath(Selected, IntTime(clock)), md5 |-> md5,
     classifyImgPath |-> getImgPath(Selected, IntTime(clock))]

\* getNextImage: the frame is unchanged, the call recurses with no cameraID
FetchDup ==
    /\ pc = "fetch"
    /\ \E md5 \in Hashes :
        /\ IsDuplicate(Selected, md5)
        /\ files' = files \cup {Fetched(md5).imgPath}
    /\ Cardinality(files') <= MaxFiles
    /\ counter' = CounterAfterSelect
    /\ reqCamera' = NoCam
    /\ depth < MaxDepth /\ depth' = depth + 1
    /\ picks' = Picked /\ failed' = failed
    /\ UNCHANGED <<workers, minusMinutes, ticks, clock, cameras, deferredImages,
                   pc, stage, timeStart, queueFull, deferredImageInfo, cur,
                   timeTracker, scores, detections, alerts, report, err>>

\* getNextImage at the interpreter's recursion limit: the download fails or
\* the frame is unchanged once more, and the next nested call raises
\* RecursionError, which nothing catches
FetchOverflow ==
    /\ pc = "fetch"
    /\ depth = MaxDepth
    /\ \/ UNCHANGED files
       \/ \E md5 \in Hashes :
            /\ IsDuplicate(Selected, md5)
            /\ files' = files \cup {Fetched(md5).imgPath}
            /\ Cardinality(files') <= MaxFiles
    /\ counter' = CounterAfterSelect
    /\ reqCamera' = NoCam
    /\ pc' = "crashed" /\ err' = "RecursionError"
    /\ picks' = Picked /\ failed' = {}
    /\ UNCHANGED <<workers, minusMinutes, ticks, depth, clock, cameras, deferredImages,
                   stage, timeStart, queueFull, deferredImageInfo, cur,
                   timeTracker, scores, detections, alerts, report>>

\* getNextImage returns to main in non-diff mode
FetchPlain ==
    /\ pc = "fetch" /\ stage = "plain"
    /\ \E md5 \in Hashes :
        /\ ~IsDuplicate(Selected, md5)
        /\ files' = files \cup {Fetched(md5).imgPath}
        /\ cameras' = [cameras EXCEPT ![Selected] = md5]
        /\ cur' = Fetched(md5)
    /\ Cardinality(files') <= MaxFiles
    /\ counter' = CounterAfterSelect
    /\ reqCamera' = NoCam
    /\ pc' = "process"
    /\ depth' = 0
    /\ picks' = Picked /\ failed' = {}
    /\ UNCHANGED <<workers, minusMinutes, ticks, clock, deferredImages, stage, timeStart,
                   queueFull, deferredImageInfo, timeTracker, scores, detections,
                   alerts, report, err>>

NewEntry(f) == [timestamp |-> f.timestamp, cameraID |-> f.cameraID,
                imgPath |-> f.imgPath, md5 |-> f.md5, oldWait |-> 0]

Matches(queue, cameraID) == {i \in 1..Len(queue) : queue[i].cameraID = cameraID}

\* getNextImage returns to addToDeferredImages; then main goes on to
\* genDiffImageFromDeferred or ends the tick
FetchAdd ==
    /\ pc = "fetch" /\ stage = "add"
    /\ \E md5 \in Hashes :
        /\ ~IsDuplicate(Selected, md5)
        /\ files' = files \cup {Fetched(md5).imgPath}
        /\ cameras' = [cameras EXCEPT ![Selected] = md5]
        /\ cur' = Fetched(md5)
    /\ Cardinality(files') <= MaxFiles
    /\ counter' = CounterAfterSelect
    /\ LET matches == Matches(deferredImages, Selected)
       IN IF Cardinality(matches) > 1
          THEN /\ pc' = "crashed" /\ err' = "AssertionError"
               /\ UNCHANGED <<clock, deferredImages, stage, reqCamera>>
          ELSE /\ err' = err
               /\ IF Cardinality(matches) > 0
                  THEN clock' = AfterSleep(clock) /\ UNCHANGED deferredImages
                  ELSE /\ deferredImages' = Append(deferredImages, NewEntry(cur'))
                       /\ UNCHANGED clock
               /\ IF deferredImageInfo # NoEntry
                  THEN /\ pc' = "fetch" /\ stage' = "resolve"
                       /\ reqCamera' = deferredImageInfo.cameraID
                  ELSE pc' = "idle" /\ stage' = stage /\ reqCamera' = NoCam
    /\ depth' = 0
    /\ picks' = Picked /\ failed' = IF pc' = "fetch" THEN failed ELSE {}
    /\ UNCHANGED <<workers, minusMinutes, ticks, timeStart, queueFull, deferredImageInfo,
                   timeTracker, scores, detections, alerts, report>>

\* genDiffImageFromDeferred after its getNextImage returned f, and main's
\* os.remove of the deferred image when a difference image was made
\* the unchanged entry keeps its timestamp and wait when put back
RequeuedEntryAsIs(info, timestamp) == info

\* deferredImageInfo['timestamp'] = timestamp; deferredImageInfo['oldWait'] += timeDiff
RequeuedEntry(info, timestamp) ==
    [info EXCEPT !.timestamp = timestamp,
                 !.oldWait = info.oldWait + (timestamp - info.timestamp)]

\* every refetch counts as a changed image
HashUnchangedNever(md5, info) == FALSE

\* md5 == deferredImageInfo['md5']
HashUnchanged(md5, info) == md5 = info.md5

ResolveWith(f) ==
    LET info == deferredImageInfo
        timeDiff == f.timestamp - info.timestamp
        got == files \cup {f.imgPath}
    IN IF HashUnchanged(f.md5, info)
       THEN IF KeepWaiting(timeDiff, info.oldWait, minusMinutes)
            THEN /\ deferredImages' =
                       Append(deferredImages, RequeuedEntry(info, f.timestamp))
                 /\ files' = RemoveFiles(got, <<f.imgPath>>).files
                 /\ pc' = "idle" /\ err' = err
            ELSE LET rm == RemoveFiles(got, <<info.imgPath, f.imgPath>>)
                 IN /\ files' = rm.files
                    /\ UNCHANGED deferredImages
                    /\ IF rm.ok
                       THEN pc' = "idle" /\ err' = err
                       ELSE pc' = "crashed" /\ err' = "FileNotFoundError"
       ELSE /\ UNCHANGED deferredImages
            /\ IF info.imgPath \notin got
               THEN /\ files' = got
                    /\ pc' = "crashed" /\ err' = "FileNotFoundError"
               ELSE /\ files' = (got \cup {DiffPath(f.imgPath)}) \ {info.imgPath}
                    /\ pc' = "process" /\ err' = err

\* getNextImage returns to genDiffImageFromDeferred
FetchResolve ==
    /\ pc = "fetch" /\ stage = "resolve"
    /\ \E md5 \in Hashes :
        /\ ~IsDuplicate(Selected, md5)
        /\ cameras' = [cameras EXCEPT ![Selected] = md5]
        /\ cur' = [Fetched(md5) EXCEPT !.classifyImgPath = DiffPath(Fetched(md5).imgPath)]
        /\ Cardinality(files \cup {Fetched(md5).imgPath}) <= MaxFiles
        /\ ResolveWith(Fetched(md5))
    /\ counter' = CounterAfterSelect
    /\ reqCamera' = NoCam
    /\ depth' = 0
    /\ picks' = Picked /\ failed' = {}
    /\ UNCHANGED <<workers, minusMinutes, ticks, clock, stage, timeStart, queueFull,
                   deferredImageInfo, timeTracker, scores, detections, alerts, report>>

\* the scores the classifier gives the boxes of one image, box by box
ScoreVectors == {<<920, 300>>, <<300, 400>>, <<850, 920>>}

\* classify: the segments of cutBoxes with their scores, sorted
classify(vec) == SortDesc([i \in 1..Len(Boxes) |-> Segment(Boxes[i], vec[i])])

ClassifyFailWritesRows ==
    /\ pc = "process"
    /\ pc' = "crashed" /\ err' = "ClassificationServiceFailure"
    /\ scores' = recordScores(scores, cur.cameraID, cur.timestamp,
                              <<Segment(Boxes[1], 0)>>, minusMinutes)
    /\ UNCHANGED <<workers, minusMinutes, picks, failed, depth, ticks, clock, cameras,
                   counter, deferredImages, files, stage, reqCamera, timeStart,
                   queueFull, deferredImageInfo, cur, timeTracker, detections,
                   alerts, report>>

\* predict_batch raises: nothing catches it
ClassifyFail ==
    /\ pc = "process"
    /\ pc' = "crashed" /\ err' = "ClassificationServiceFailure"
    /\ UNCHANGED <<workers, minusMinutes, picks, failed, depth, ticks, clock, cameras, counter, deferredImages,
                   files, stage, reqCamera, timeStart, queueFull, deferredImageInfo,
                   cur, timeTracker, scores, detections, alerts, report>>

\* goog_helper.uploadFile returns the file's id, or None
DriveFileIDs(upOrig, upAnn, imgPath, annotatedFile) ==
    (IF upOrig THEN <<imgPath>> ELSE <<>>) \o (IF upAnn THEN <<annotatedFile>> ELSE <<>>)

\* the tables are written in every mode
RecordsRowsAlways(positivesOnly) == TRUE

\* if not positivesOnly:
RecordsRows(positivesOnly) == ~positivesOnly

\* main from segmentImage to updateTimeTracker: classify, recordFilterReport
\* and the time tracker
ProcessWith(positivesOnly) ==
    /\ pc = "process"
    /\ \E vec \in ScoreVectors, upOrig \in BOOLEAN, upAnn \in BOOLEAN :
        LET segments == classify(vec)
            records == RecordsRows(positivesOnly)
            scores1 == IF records
                       THEN recordScores(scores, cur.cameraID, cur.timestamp,
                                         segments, minusMinutes)
                       ELSE scores
            pf == IF records
                  THEN postFilter(scores1, cur.cameraID, cur.timestamp, segments)
                  ELSE [fire |-> NoSegment, queried |-> FALSE, rows |-> 0]
            found == pf.fire # NoSegment
            annotatedFile == IF found THEN AnnotatedPath(cur.imgPath) ELSE NoPath
            ids == DriveFileIDs(upOrig, upAnn, cur.imgPath, annotatedFile)
            al == checkAndUpdateAlerts(alerts, cur.cameraID, cur.timestamp, ids)
            rm == deleteImageFiles(IF found THEN files \cup {annotatedFile} ELSE files,
                                   cur.classifyImgPath, cur.imgPath, annotatedFile)
            rep == [camera |-> cur.cameraID, timestamp |-> cur.timestamp,
                    segments |-> segments, queried |-> pf.queried,
                    histRows |-> pf.rows, fire |-> pf.fire,
                    scoreRows |-> Len(scores1) - Len(scores), detectionRows |-> 0,
                    alertRows |-> 0, notified |-> FALSE,
                    driveFileIDs |-> IF found THEN ids ELSE <<>>,
                    heartbeats |-> 0]
        IN /\ Len(scores1) <= MaxScoreRows
           /\ ~found => (upOrig /\ upAnn)
           /\ scores' = scores1
           /\ IF found /\ cur.imgPath \notin files
              THEN \* drawFireBox cannot open origImgPath
                   /\ report' = rep
                   /\ pc' = "crashed" /\ err' = "FileNotFoundError"
                   /\ UNCHANGED <<detections, alerts, files, timeTracker>>
              ELSE /\ detections' = IF found
                                    THEN recordDetection(detections, cur.cameraID,
                                                         cur.timestamp, ids, pf.fire)
                                    ELSE detections
                   /\ alerts' = IF found THEN al.table ELSE alerts
                   /\ report' = [rep EXCEPT
                                    !.detectionRows = Len(detections') - Len(detections),
                                    !.alertRows = Len(alerts') - Len(alerts),
                                    !.notified = found /\ al.isNew,
                                    \* args.heartbeat is set: heartBeat runs once
                                    \* deleteImageFiles has returned
                                    !.heartbeats = IF rm.ok THEN 1 ELSE 0]
                   /\ files' = rm.files
                   /\ IF rm.ok
                      THEN /\ timeTracker' = updateTimeTracker(timeTracker,
                                                               clock - timeStart)
                           /\ pc' = "idle" /\ err' = err
                      ELSE /\ pc' = "crashed" /\ err' = "FileNotFoundError"
                           /\ UNCHANGED timeTracker
    /\ UNCHANGED <<workers, minusMinutes, picks, failed, depth, ticks, clock, cameras, counter, deferredImages,
                   stage, reqCamera, timeStart, queueFull, deferredImageInfo, cur>>

\* live mode: main passes useArchivedImages = False as positivesOnly
Process == ProcessWith(FALSE)

\* --------------------------------------------------------- initial state
\* score rows of earlier days that are in the table when the process starts
HistoryRow(camera, timestamp, box, score) ==
    [CameraName |-> camera, Timestamp |-> timestamp,
     MinX |-> box[1], MinY |-> box[2], MaxX |-> box[3], MaxY |-> box[4],
     Score |-> score, MinusMinutes |-> 0, SecondsInDay |-> SecondsInDay(timestamp)]

InitialHistories ==
    {<<>>, <<HistoryRow(1, StartTime - SecondsPerDay, Boxes[1], 300)>>}

\* the tracker of a starting process, and trackers after a reset by
\* updateTimeTracker in a process that has run for a while
InitialTrackers(mm) ==
    {initializeTimeTracker}
      \cup {[totalTime |-> 0, numSamples |-> 0, timePerSample |-> <<k * mm, 1>>] :
              k \in IF mm > 0 THEN {60} ELSE {}}

Init ==
    /\ minusMinutes \in {0, 1, 10}
    /\ clock = TimeBase
    /\ cameras = [c \in Cams |-> NoHash]
    /\ counter = 0
    /\ deferredImages = <<>>
    /\ files = {}
    /\ pc = "idle"
    /\ stage = "none"
    /\ reqCamera = NoCam
    /\ timeStart = TimeBase
    /\ queueFull = FALSE
    /\ deferredImageInfo = NoEntry
    /\ cur = NoFetch
    /\ timeTracker \in InitialTrackers(minusMinutes)
    /\ scores \in InitialHistories
    /\ detections = <<>>
    /\ alerts = <<>>
    /\ report = NoReport
    /\ ticks = 0
    /\ depth = 0
    /\ picks = <<>>
    /\ failed = {}
    /\ err = "none"
    /\ workers = NoWorkers

Next ==
    \/ AdvanceTime
    \/ TickStart
    \/ FetchFail
    \/ FetchDup
    \/ FetchOverflow
    \/ FetchPlain
    \/ FetchAdd
    \/ FetchResolve
    \/ ClassifyFail
    \/ Process

Spec == Init /\ [][Next]_vars

\* a running getNextImage takes its next step: the download ends, one way or
\* the other
FetchStep ==
    FetchFail \/ FetchDup \/ FetchOverflow \/ FetchPlain \/ FetchAdd \/ FetchResolve

LiveSpec == Init /\ [][Next]_vars /\ WF_vars(FetchStep)

\* ------------------------------------------- the queue test on its inputs
\* a queue of n cameras, queued one second after the other
QueueOf(n) ==
    [i \in 1..n |-> [timestamp |-> StartTime + (i - 1), cameraID |-> i,
                     imgPath |-> getImgPath(i, StartTime + (i - 1)),
                     md5 |-> 1, oldWait |-> 0]]

\* trackers: the constructor's, and those updateTimeTracker leaves after a
\* reset, with a rate just under 4 s, just over 4 s and of the whole window
QTrackers(mm) ==
    LET n == (SampleWindow + 1) * Res
    IN {initializeTimeTracker}
         \cup {[totalTime |-> 0, numSamples |-> 0, timePerSample |-> r] :
                 r \in {<<4 * n - 1, n>>, <<4 * n + 1, n>>, <<60 * mm, 1>>}}

\* the clock when the head is not yet older than minusMinutes, when it is
\* exactly that old, when it alone is older and when the second entry is too
QInstants(mm) ==
    {TimeBase + o : o \in {MaxQueue * Res, 60 * mm * Res, 60 * mm * Res + 1,
                           (60 * mm + 1) * Res + 1}}

QInit ==
    /\ minusMinutes \in {1, 10}
    /\ clock \in QInstants(minusMinutes)
    /\ cameras = [c \in 1..MaxQueue |-> 1]
    /\ counter = 0
    /\ deferredImages \in {QueueOf(n) : n \in 0..MaxQueue}
    /\ files = {deferredImages[i].imgPath : i \in 1..Len(deferredImages)}
    /\ pc = "idle"
    /\ stage = "none"
    /\ reqCamera = NoCam
    /\ timeStart = TimeBase
    /\ queueFull = FALSE
    /\ deferredImageInfo = NoEntry
    /\ cur = NoFetch
    /\ timeTracker \in QTrackers(minusMinutes)
    /\ scores = <<>>
    /\ detections = <<>>
    /\ alerts = <<>>
    /\ report = NoReport
    /\ ticks = 0
    /\ depth = 0
    /\ picks = <<>>
    /\ failed = {}
    /\ err = "none"
    /\ workers = NoWorkers

QNext == TickStart

QSpec == QInit /\ [][QNext]_vars

\* ------------------------------------------ the alert ledger on its inputs
\* the seconds after StartTime a detection is reported at
AlertOffsets == {0, AlertWindow - 1, AlertWindow, AlertWindow + 1, 2 * AlertWindow}

\* recordFilterReport's call of checkAndUpdateAlerts for a detection
CheckAlert ==
    /\ pc = "idle"
    /\ ticks < MaxChecks
    /\ ticks' = ticks + 1
    /\ \E camera \in Cams, o \in AlertOffsets, upOrig \in BOOLEAN, upAnn \in BOOLEAN :
        LET timestamp == StartTime + o
            imgPath == getImgPath(camera, timestamp)
            ids == DriveFileIDs(upOrig, upAnn, imgPath, AnnotatedPath(imgPath))
            al == checkAndUpdateAlerts(alerts, camera, timestamp, ids)
        IN /\ alerts' = al.table
           /\ cur' = [NoFetch EXCEPT !.cameraID = camera, !.timestamp = timestamp]
           /\ report' = [NoReport EXCEPT !.camera = camera, !.timestamp = timestamp,
                                         !.alertRows = Len(al.table) - Len(alerts),
                                         !.notified = al.isNew,
                                         !.driveFileIDs = ids]
    /\ UNCHANGED <<workers, minusMinutes, picks, failed, depth, clock, cameras, counter, deferredImages,
                   files, pc, stage, reqCamera, timeStart, queueFull,
                   deferredImageInfo, timeTracker, scores, detections, err>>

AlertInit ==
    /\ Init
    /\ minusMinutes = 0
    /\ timeTracker = initializeTimeTracker
    /\ scores = <<>>

AlertNext == CheckAlert

AlertSpec == AlertInit /\ [][AlertNext]_vars

\* two processes run checkAndUpdateAlerts on the shared alerts table; the
\* query and the insert are two calls of dbManager
LedgerOffsets == {0, 1, AlertWindow}

\* dbResult = dbManager.query(sqlStr); return False when a row came back
AlertQuery(p) ==
    /\ workers[p].pc = "idle"
    /\ ticks < MaxChecks
    /\ ticks' = ticks + 1
    /\ \E camera \in Cams, o \in LedgerOffsets, upOrig \in BOOLEAN :
        LET timestamp == StartTime + o
            imgPath == getImgPath(camera, timestamp)
            dbResult == RecentAlerts(alerts, camera, timestamp)
        IN workers' = [workers EXCEPT ![p] =
                          [pc |-> IF Cardinality(dbResult) > 0 THEN "idle" ELSE "insert",
                           camera |-> camera, timestamp |-> timestamp,
                           driveFileIDs |-> DriveFileIDs(upOrig, TRUE, imgPath,
                                                         AnnotatedPath(imgPath)),
                           notified |-> FALSE]]
    /\ UNCHANGED <<minusMinutes, picks, failed, depth, clock, cameras, counter,
                   deferredImages, files, pc, stage, reqCamera, timeStart,
                   queueFull, deferredImageInfo, cur, timeTracker, scores,
                   detections, alerts, report, err>>

\* dbManager.add_data('alerts', dbRow); return True, and the caller notifies
AlertInsert(p) ==
    /\ workers[p].pc = "insert"
    /\ alerts' = Append(alerts, [CameraName |-> workers[p].camera,
                                 Timestamp |-> workers[p].timestamp,
                                 ImageID |-> FirstID(workers[p].driveFileIDs)])
    /\ workers' = [workers EXCEPT ![p].pc = "idle", ![p].notified = TRUE]
    /\ UNCHANGED <<minusMinutes, picks, failed, depth, ticks, clock, cameras,
                   counter, deferredImages, files, pc, stage, reqCamera,
                   timeStart, queueFull, deferredImageInfo, cur, timeTracker,
                   scores, detections, report, err>>

LedgerNext == \E p \in Procs : AlertQuery(p) \/ AlertInsert(p)

LedgerSpec == AlertInit /\ [][LedgerNext]_vars

\* ------------------------------------------------ the queue in a long run
\* The loop of diff mode running without end, seen from the queue: one step is
\* one iteration of main's loop that reaches its end, with what it does to
\* deferredImages; the scratch files and the tables are left aside. The clock
\* is observed at a few early instants and at one last instant that is later
\* than every early one by more than the wait and the retry window.
DrainEarly(mm) ==
    {0, 1, 60 * mm, 60 * mm + 1, RetryWindow(mm) - 1, RetryWindow(mm)}

DrainLast(mm) ==
    Max(60 * mm + 1, RetryWindow(mm)) + Max(60 * mm, RetryWindow(mm)) + 1

DrainInstants ==
    {TimeBase + o * Res : o \in DrainEarly(minusMinutes) \cup {DrainLast(minusMinutes)}}

\* time passes between two iterations
DrainAdvance ==
    /\ pc = "idle"
    /\ \E t \in DrainInstants : t > clock /\ clock' = t
    /\ UNCHANGED <<workers, minusMinutes, picks, failed, depth, ticks, cameras, counter,
                   deferredImages, files, pc, stage, reqCamera, timeStart,
                   queueFull, deferredImageInfo, cur, timeTracker, scores,
                   detections, alerts, report, err>>

\* time.sleep(2), the last instant standing for all later ones
DrainSleep(c) ==
    LET later == {t \in DrainInstants : t >= c + SleepSeconds * Res}
    IN IF later = {} THEN c
       ELSE CHOOSE t \in later : \A u \in later : t <= u

\* what getNextImage returns for a camera at a clock value
FetchedAt(camera, c, md5) ==
    [cameraID |-> camera, timestamp |-> IntTime(c),
     imgPath |-> getImgPath(camera, IntTime(c)), md5 |-> md5,
     classifyImgPath |-> getImgPath(camera, IntTime(c))]

\* one iteration in diff mode: getDeferrredImgageInfo, addToDeferredImages
\* when the queue is not full, genDiffImageFromDeferred for a dequeued entry
DrainTick ==
    /\ pc = "idle"
    /\ minusMinutes # 0
    /\ \E camera \in Cams, md5 \in Hashes, newMd5 \in Hashes :
        LET r == getDeferrredImgageInfo(deferredImages, timeTracker,
                                        minusMinutes, clock)
            matches == IF r.queueFull THEN {} ELSE Matches(r.queue, camera)
            added == FetchedAt(camera, clock, md5)
            queue1 == IF ~r.queueFull /\ matches = {}
                      THEN Append(r.queue, NewEntry(added))
                      ELSE r.queue
            clock1 == IF Cardinality(matches) > 0 THEN DrainSleep(clock) ELSE clock
            f == FetchedAt(r.img.cameraID, clock1, newMd5)
            timeDiff == f.timestamp - r.img.timestamp
        IN /\ timeStart' = clock
           /\ queueFull' = r.queueFull
           /\ deferredImageInfo' = r.img
           /\ IF Cardinality(matches) > 1
              THEN /\ pc' = "crashed" /\ err' = "AssertionError"
                   /\ deferredImages' = r.queue
                   /\ stage' = "add" /\ cur' = added
                   /\ UNCHANGED clock
              ELSE /\ pc' = "idle" /\ err' = err
                   /\ clock' = clock1
                   /\ IF r.img = NoEntry
                      THEN /\ deferredImages' = queue1
                           /\ stage' = IF r.queueFull THEN "none" ELSE "add"
                           /\ cur' = IF r.queueFull THEN NoFetch ELSE added
                      ELSE /\ stage' = "resolve"
                           /\ cur' = [f EXCEPT !.classifyImgPath = DiffPath(f.imgPath)]
                           /\ deferredImages' =
                                 IF /\ HashUnchanged(newMd5, r.img)
                                    /\ KeepWaiting(timeDiff, r.img.oldWait, minusMinutes)
                                 THEN Append(queue1, RequeuedEntry(r.img, f.timestamp))
                                 ELSE queue1
    /\ UNCHANGED <<workers, minusMinutes, picks, failed, depth, ticks, cameras, counter,
                   files, reqCamera, timeTracker, scores, detections, alerts,
                   report>>

DrainInit ==
    /\ minusMinutes \in {1, 10}
    /\ clock = TimeBase
    /\ cameras = [c \in Cams |-> NoHash]
    /\ counter = 0
    /\ deferredImages = <<>>
    /\ files = {}
    /\ pc = "idle"
    /\ stage = "none"
    /\ reqCamera = NoCam
    /\ timeStart = TimeBase
    /\ queueFull = FALSE
    /\ deferredImageInfo = NoEntry
    /\ cur = NoFetch
    /\ timeTracker \in InitialTrackers(minusMinutes)
    /\ scores = <<>>
    /\ detections = <<>>
    /\ alerts = <<>>
    /\ report = NoReport
    /\ ticks = 0
    /\ depth = 0
    /\ picks = <<>>
    /\ failed = {}
    /\ err = "none"
    /\ workers = NoWorkers

DrainNext == DrainAdvance \/ DrainTick

\* the loop keeps iterating and time keeps passing
DrainSpec ==
    DrainInit /\ [][DrainNext]_vars /\ WF_vars(DrainTick) /\ WF_vars(DrainAdvance)

\* ------------------------------------------------------ archived images
\* main with startTime and endTime given: useArchivedImages is True. The
\* archive returns the files its caller asked for, or fewer: up to two in diff
\* mode (the image and the one minusMinutes earlier), up to one otherwise.
ArchiveTimes == {StartTime - SecondsPerDay + o : o \in {0, 60, 3600}}

\* main from `timeStart = time.time()` through getArchivedImages
ArchiveFetch ==
    /\ pc = "idle"
    /\ ticks < MaxTicks
    /\ ticks' = ticks + 1
    /\ timeStart' = clock
    /\ report' = NoReport
    /\ stage' = "archive"
    /\ \E camera \in Cams, t \in ArchiveTimes, n \in 0..2, inOrder \in BOOLEAN :
        LET later == getImgPath(camera, t)
            found == n >= 1 /\ (minusMinutes # 0 => (n = 2 /\ inOrder))
        IN /\ (minusMinutes = 0) => n <= 1
           /\ IF found
              THEN /\ cur' = [cameraID |-> camera, timestamp |-> t,
                              imgPath |-> later, md5 |-> NoHash,
                              classifyImgPath |-> IF minusMinutes # 0
                                                  THEN DiffPath(later) ELSE later]
                   /\ files' = files \cup {later, cur'.classifyImgPath}
                   /\ pc' = "process"
              ELSE \* no file, one file in diff mode or files out of order:
                   \* what was downloaded is removed and the tick ends
                   /\ cur' = NoFetch
                   /\ UNCHANGED <<files, pc>>
    /\ UNCHANGED <<workers, minusMinutes, picks, failed, depth, clock, cameras, counter,
                   deferredImages, reqCamera, queueFull, deferredImageInfo,
                   timeTracker, scores, detections, alerts, err>>

\* main from segmentImage on, with useArchivedImages passed as positivesOnly
ArchiveProcess == stage = "archive" /\ ProcessWith(TRUE)

ArchiveInit ==
    /\ minusMinutes \in {0, 1}
    /\ clock = TimeBase
    /\ cameras = [c \in Cams |-> NoHash]
    /\ counter = 0
    /\ deferredImages = <<>>
    /\ files = {}
    /\ pc = "idle"
    /\ stage = "none"
    /\ reqCamera = NoCam
    /\ timeStart = TimeBase
    /\ queueFull = FALSE
    /\ deferredImageInfo = NoEntry
    /\ cur = NoFetch
    /\ timeTracker = initializeTimeTracker
    /\ scores \in InitialHistories
    /\ detections = <<>>
    /\ alerts = <<>>
    /\ report = NoReport
    /\ ticks = 0
    /\ depth = 0
    /\ picks = <<>>
    /\ failed = {}
    /\ err = "none"
    /\ workers = NoWorkers

ArchiveNext == AdvanceTime \/ ArchiveFetch \/ ArchiveProcess \/ ClassifyFail

ArchiveSpec == ArchiveInit /\ [][ArchiveNext]_vars

\* one detection process: the timestamps of its detections never decrease
CheckAlertInOrder ==
    /\ CheckAlert
    /\ cur'.timestamp >= cur.timestamp

OrderedAlertSpec == AlertInit /\ [][CheckAlertInOrder]_vars

\* ================================================================ claims


\* ---------------------------------------- the history filter on its inputs
\* the scores one box had a day earlier, at the same time of day
BoxHistories == {<<>>, <<600>>, <<300, 750>>, <<800>>, <<900, 300>>}

\* the scores table holding, for camera 1, history h1 of Boxes[1] and h2 of
\* Boxes[2]
HistoryTable(h1, h2) ==
    [i \in 1..Len(h1) |-> HistoryRow(1, StartTime - SecondsPerDay, Boxes[1], h1[i])]
      \o [i \in 1..Len(h2) |-> HistoryRow(1, StartTime - SecondsPerDay, Boxes[2], h2[i])]

\* the scores the classifier gives a box
FilterScores == {300, 500, 800, 801, 850, 951, 1000}

FilterInit ==
    /\ minusMinutes = 0
    /\ clock = TimeBase
    /\ cameras = [c \in Cams |-> NoHash]
    /\ counter = 0
    /\ deferredImages = <<>>
    /\ files = {}
    /\ pc = "idle"
    /\ stage = "none"
    /\ reqCamera = NoCam
    /\ timeStart = TimeBase
    /\ queueFull = FALSE
    /\ deferredImageInfo = NoEntry
    /\ cur = NoFetch
    /\ timeTracker = initializeTimeTracker
    /\ scores \in {HistoryTable(h1, h2) : h1 \in BoxHistories, h2 \in BoxHistories}
    /\ detections = <<>>
    /\ alerts = <<>>
    /\ report = NoReport
    /\ ticks = 0
    /\ depth = 0
    /\ picks = <<>>
    /\ failed = {}
    /\ err = "none"
    /\ workers = NoWorkers

\* recordFilterReport's calls of recordScores and postFilter for an image of
\* camera 1 taken now
ApplyFilter ==
    /\ pc = "idle"
    /\ report.camera = NoCam
    /\ \E s1 \in FilterScores, s2 \in FilterScores :
        LET segments == classify(<<s1, s2>>)
            scores1 == recordScores(scores, 1, IntTime(clock), segments, minusMinutes)
            pf == postFilter(scores1, 1, IntTime(clock), segments)
        IN /\ scores' = scores1
           /\ cur' = [NoFetch EXCEPT !.cameraID = 1, !.timestamp = IntTime(clock)]
           /\ report' = [NoReport EXCEPT !.camera = 1, !.timestamp = IntTime(clock),
                                         !.segments = segments,
                                         !.queried = pf.queried,
                                         !.histRows = pf.rows, !.fire = pf.fire,
                                         !.scoreRows = Len(scores1) - Len(scores)]
    /\ UNCHANGED <<workers, minusMinutes, picks, failed, depth, ticks, clock, cameras, counter,
                   deferredImages, files, pc, stage, reqCamera, timeStart,
                   queueFull, deferredImageInfo, timeTracker, detections,
                   alerts, err>>

FilterNext == ApplyFilter

FilterSpec == FilterInit /\ [][FilterNext]_vars

\* the filter at several times of day, over histories around the same time of
\* day on earlier days
WindowTimesOfDay == {1800, 43200, 84600}

\* how long before the image a history row was recorded
HistoryAges ==
    {SecondsPerDay + 3600, SecondsPerDay + 2700, SecondsPerDay,
     SecondsPerDay - 2700, SecondsPerDay - 3600, 4 * SecondsPerDay,
     HistoryEndHours * 3600}

WindowRows(timestamp) ==
    {HistoryRow(c, timestamp - age, Boxes[b], 300) :
        c \in Cams, age \in HistoryAges, b \in 1..Len(Boxes)}

WindowTables(timestamp) ==
    {<<>>} \cup {<<r>> : r \in WindowRows(timestamp)}
           \cup {<<r1, r2>> : r1 \in WindowRows(timestamp),
                               r2 \in WindowRows(timestamp)}

WindowInit ==
    /\ minusMinutes = 0
    /\ clock \in {(StartTime + tod) * Res : tod \in WindowTimesOfDay}
    /\ cameras = [c \in Cams |-> NoHash]
    /\ counter = 0
    /\ deferredImages = <<>>
    /\ files = {}
    /\ pc = "idle"
    /\ stage = "none"
    /\ reqCamera = NoCam
    /\ timeStart = clock
    /\ queueFull = FALSE
    /\ deferredImageInfo = NoEntry
    /\ cur = NoFetch
    /\ timeTracker = initializeTimeTracker
    /\ scores \in WindowTables(IntTime(clock))
    /\ detections = <<>>
    /\ alerts = <<>>
    /\ report = NoReport
    /\ ticks = 0
    /\ depth = 0
    /\ picks = <<>>
    /\ failed = {}
    /\ err = "none"
    /\ workers = NoWorkers

WindowSpec == WindowInit /\ [][FilterNext]_vars


\* ------------------------------------------- non-diff mode, any camera list
\* camera lists of every length up to MaxCams; the shared counter is
\* wherever earlier runs left it
RoundInit ==
    /\ minusMinutes = 0
    /\ clock = TimeBase
    /\ cameras \in {[c \in 1..L |-> NoHash] : L \in 1..MaxCams}
    /\ counter \in 0..(LenCameras - 1)
    /\ deferredImages = <<>>
    /\ files = {}
    /\ pc = "idle"
    /\ stage = "none"
    /\ reqCamera = NoCam
    /\ timeStart = TimeBase
    /\ queueFull = FALSE
    /\ deferredImageInfo = NoEntry
    /\ cur = NoFetch
    /\ timeTracker = initializeTimeTracker
    /\ scores = <<>>
    /\ detections = <<>>
    /\ alerts = <<>>
    /\ report = NoReport
    /\ ticks = 0
    /\ depth = 0
    /\ picks = <<>>
    /\ failed = {}
    /\ err = "none"
    /\ workers = NoWorkers

RoundNext ==
    \/ AdvanceTime
    \/ TickStart
    \/ FetchFail
    \/ FetchDup
    \/ FetchOverflow
    \/ FetchPlain
    \/ ClassifyFail
    \/ Process

RoundSpec == RoundInit /\ [][RoundNext]_vars


\* -------------------------------------------- the time tracker on its inputs
\* the seconds an iteration of main's loop took
Durations == {2, 5}

TrackerInit ==
    /\ minusMinutes = 0
    /\ clock = TimeBase
    /\ cameras = [c \in Cams |-> NoHash]
    /\ counter = 0
    /\ deferredImages = <<>>
    /\ files = {}
    /\ pc = "idle"
    /\ stage = "none"
    /\ reqCamera = NoCam
    /\ timeStart = TimeBase
    /\ queueFull = FALSE
    /\ deferredImageInfo = NoEntry
    /\ cur = NoFetch
    /\ timeTracker = initializeTimeTracker
    /\ scores = <<>>
    /\ detections = <<>>
    /\ alerts = <<>>
    /\ report = NoReport
    /\ ticks = 0
    /\ depth = 0
    /\ picks = <<>>
    /\ failed = {}
    /\ err = "none"
    /\ workers = NoWorkers

\* main's call updateTimeTracker(processingTimeTracker, timePost - timeStart)
RecordSample ==
    /\ pc = "idle"
    /\ ticks < MaxSamples
    /\ ticks' = ticks + 1
    /\ \E d \in Durations : timeTracker' = updateTimeTracker(timeTracker, d * Res)
    /\ UNCHANGED <<workers, minusMinutes, picks, failed, depth, clock, cameras, counter,
                   deferredImages, files, pc, stage, reqCamera, timeStart,
                   queueFull, deferredImageInfo, cur, scores, detections,
                   alerts, report, err>>

TrackerNext == RecordSample

TrackerSpec == TrackerInit /\ [][TrackerNext]_vars

\* C1: the deferred queue never holds two entries with the same cameraID
\* (the original claim; the loop breaks it when a dequeued entry is requeued
\* after addToDeferredImages queued the same camera again).
C1_NoDuplicateCamera ==
    \A i \in 1..Len(deferredImages), j \in 1..Len(deferredImages) :
        i # j => deferredImages[i].cameraID # deferredImages[j].cameraID

\* C2: the capture genDiffImageFromDeferred returns for classification
\* belongs to the camera of the dequeued entry (the original claim; after a
\* failed download the retry takes the next scheduled camera).
C2_ResolveSameCamera ==
    (minusMinutes # 0 /\ pc = "process") => cur.cameraID = deferredImageInfo.cameraID

ReportScores == [i \in 1..Len(report.segments) |-> report.segments[i].score]

\* a recordFilterReport has run whose history query returned no row
FilteredOnEmptyHistory ==
    /\ report.camera # NoCam
    /\ report.queried
    /\ report.histRows = 0
    /\ ReportScores = <<920, 300>>

\* C3 as stated: with no history rows and sorted scores [0.92, 0.3] the
\* filter selects the 0.92 segment and the tick records a Detection row.
C3_EmptyHistoryDetects ==
    (pc = "idle" /\ FilteredOnEmptyHistory)
        => (report.fire.score = 920 /\ report.detectionRows = 1)

\* C3 amended: with no history rows and sorted scores [0.92, 0.3] the filter
\* returns none and the tick records no Detection row and no alert.
C3_EmptyHistoryReturnsNone ==
    FilteredOnEmptyHistory
        => (report.fire = NoSegment /\ report.detectionRows = 0 /\ report.alertRows = 0)

C3_Witness ==
    /\ pc = "idle"
    /\ FilteredOnEmptyHistory
    /\ report.scoreRows = 2
    /\ report.fire = NoSegment

QueuedPaths == {deferredImages[i].imgPath : i \in 1..Len(deferredImages)}

\* C5: at the end of a tick the scratch directory holds no file of the
\* camera handled in the tick, apart from the images the queue still holds
\* (the original claim; the image fetched for an already queued camera stays).
C5_NoLeftoverFiles ==
    (pc = "idle" /\ cur.cameraID # NoCam)
        => \A f \in files : f[1] = cur.cameraID => f \in QueuedPaths

\* genDiffImageFromDeferred found the refetched hash equal to the entry's
\* (the difference branch leaves the tick at "process", or crashes with a
\* capture whose hash differs)
ResolvedUnchanged ==
    /\ pc \in {"idle", "crashed"}
    /\ stage = "resolve"
    /\ cur.cameraID # NoCam
    /\ cur.classifyImgPath = DiffPath(cur.imgPath)
    /\ cur.md5 = deferredImageInfo.md5

Elapsed == cur.timestamp - deferredImageInfo.timestamp

Requeued == [deferredImageInfo EXCEPT !.timestamp = cur.timestamp,
                                      !.oldWait = deferredImageInfo.oldWait + Elapsed]

IsRequeued ==
    /\ Len(deferredImages) > 0
    /\ deferredImages[Len(deferredImages)] = Requeued

IsDiscarded == \A i \in 1..Len(deferredImages) : deferredImages[i] # Requeued

TimeoutSeconds ==
    IF minusMinutes = 10 THEN 300
    ELSE IF minusMinutes = 1 THEN 120
    ELSE Min(2 * minusMinutes * 60, 300)

\* C9: an entry whose refetch is unchanged is discarded iff
\* oldWait + elapsed >= min(2*minusMinutes*60, 300) and requeued otherwise;
\* the timeout is 300 s for minusMinutes = 10 and 120 s for minusMinutes = 1.
C9_DiscardIffTimeout ==
    ResolvedUnchanged =>
        IF deferredImageInfo.oldWait + Elapsed >= TimeoutSeconds
        THEN IsDiscarded
        ELSE IsRequeued

C9_Witness ==
    /\ ResolvedUnchanged
    /\ deferredImageInfo.oldWait > 0
    /\ deferredImageInfo.oldWait + Elapsed = TimeoutSeconds
    /\ IsDiscarded
    /\ deferredImageInfo.imgPath \notin files

\* C10: when the highest score of the segments is below 0.5 the filter
\* returns none and runs no history query, whatever the history holds.
C10_BelowHalfNoQuery ==
    (report.camera # NoCam /\ \A i \in 1..Len(report.segments) :
                                 report.segments[i].score < 500)
        => (~report.queried /\ report.fire = NoSegment /\ report.detectionRows = 0)

C10_Witness ==
    /\ pc = "idle"
    /\ report.camera # NoCam
    /\ \A i \in 1..Len(report.segments) : report.segments[i].score < 500
    /\ HistoryQuery(scores, report.camera, report.timestamp) # {}
    /\ ~report.queried

\* C4: checkAndUpdateAlerts reports no new alert for camera c at timestamp t
\* iff the ledger holds a record of c with Timestamp > t - 7200; a detection
\* 7199 s after a record of c is suppressed, and one whose distance to every
\* record of c is 7200 s or 7201 s is let through.
C4_SuppressedIffRecent ==
    [][ticks' = ticks + 1 =>
        LET c == report'.camera
            t == report'.timestamp
            ofC == {i \in 1..Len(alerts) : alerts[i].CameraName = c}
            recent == \E i \in ofC : alerts[i].Timestamp > t - 7200
        IN /\ ~report'.notified <=> recent
           /\ (\E i \in ofC : t = alerts[i].Timestamp + 7199) => ~report'.notified
           /\ (\A i \in ofC : t \in {alerts[i].Timestamp + 7200,
                                     alerts[i].Timestamp + 7201})
                 => report'.notified
           /\ Len(alerts') = Len(alerts) + (IF report'.notified THEN 1 ELSE 0)]_vars

C4_Witness ==
    /\ Len(alerts) = 2
    /\ alerts[1].CameraName = alerts[2].CameraName
    /\ alerts[2].Timestamp = alerts[1].Timestamp + 7200
    /\ report.notified
    /\ report.timestamp = alerts[2].Timestamp

\* C6: a getNextImage called with no cameraID always eventually returns a
\* result to its caller (the original claim; when every download fails or
\* every frame is unchanged the recursion ends in RecursionError).
C6_FetchReturns ==
    \A s \in {"plain", "add", "resolve"} :
        (pc = "fetch" /\ stage = s /\ reqCamera = NoCam)
            ~> (~(pc = "fetch" /\ stage = s) /\ err # "RecursionError")

\* the length of the queue getDeferrredImgageInfo was called with
PreLen == Len(deferredImages) + (IF deferredImageInfo # NoEntry THEN 1 ELSE 0)

\* C7: queueFull is true iff queueLength * timePerSample >= minusMinutes*60,
\* equality included; with timePerSample = 3 iff queueLength*3 >=
\* minusMinutes*60; an empty queue is never full.
C7_FullIffDrainReachesWindow ==
    ticks = 1 =>
        /\ queueFull <=> (PreLen * timeTracker.timePerSample[1]
                            >= minusMinutes * 60 * timeTracker.timePerSample[2])
        /\ timeTracker.timePerSample = <<3, 1>>
              => (queueFull <=> PreLen * 3 >= minusMinutes * 60)
        /\ PreLen = 0 => ~queueFull

C7_Witness ==
    /\ ticks = 1
    /\ queueFull
    /\ timeTracker.timePerSample = <<3, 1>>
    /\ PreLen * 3 = minusMinutes * 60

\* C8: getDeferrredImgageInfo removes and returns the head iff the queue is
\* non-empty and (it is full or head.timestamp + minusMinutes*60 < now);
\* otherwise it returns none and leaves the queue as it was; no entry but the
\* head is ever removed.
C8_DequeuesHeadIffReady ==
    [][(pc = "idle" /\ ticks' = ticks + 1 /\ minusMinutes # 0) =>
        LET isFull == Len(deferredImages) * timeTracker.timePerSample[1]
                        >= minusMinutes * 60 * timeTracker.timePerSample[2]
            ready == /\ Len(deferredImages) > 0
                     /\ \/ isFull
                        \/ (deferredImages[1].timestamp + minusMinutes * 60) * Res
                              < clock
        IN IF ready
           THEN /\ deferredImageInfo' = Head(deferredImages)
                /\ deferredImages' = Tail(deferredImages)
           ELSE /\ deferredImageInfo' = NoEntry
                /\ deferredImages' = deferredImages]_vars

C8_Witness ==
    /\ ticks = 1
    /\ ~queueFull
    /\ deferredImageInfo.cameraID = 1
    /\ Len(deferredImages) >= 1
    /\ HeadAged(deferredImages[1], 60 * minusMinutes, clock)

\* the rows of the scores table that are history for the reported image
HistoryOfBox(seg) ==
    {i \in 1..Len(scores) : /\ scores[i].CameraName = report.camera
                            /\ scores[i].Timestamp < report.timestamp
                            /\ BoxOf(scores[i]) = BoxOf(seg)}

HistMaxOfBox(seg) ==
    CHOOSE m \in {scores[i].Score : i \in HistoryOfBox(seg)} :
        \A i \in HistoryOfBox(seg) : scores[i].Score <= m

\* the score is at least 0.5 and strictly above (histMax+1)/2 and histMax+0.2
ClearsOwnThreshold(seg) ==
    /\ seg.score >= 500
    /\ HistoryOfBox(seg) # {}
    /\ 2 * seg.score > HistMaxOfBox(seg) + 1000
    /\ seg.score > HistMaxOfBox(seg) + 200

ClearingSegments ==
    {i \in 1..Len(report.segments) : ClearsOwnThreshold(report.segments[i])}

C13_RoundRobin ==
    minusMinutes = 0 =>
        /\ \A i, j \in 1..Len(picks) : i # j => picks[i] # picks[j]
        /\ Len(picks) = LenCameras
              => {picks[i] : i \in 1..Len(picks)} = DOMAIN cameras

C13_Witness ==
    /\ minusMinutes = 0
    /\ LenCameras = 3
    /\ picks = <<3, 1, 2>>
    /\ depth = 2

\* C14: a getNextImage called with no cameraID never returns a frame whose
\* md5 equals the md5 recorded for its camera before the call, and whenever a
\* getNextImage returns, the md5 recorded for the returned camera is the
\* returned md5.
C14_FetchedHashIsNew ==
    [][(pc = "fetch" /\ cur' # cur) =>
        /\ cameras'[cur'.cameraID] = cur'.md5
        /\ stage \in {"plain", "add"} => cameras[cur'.cameraID] # cur'.md5]_vars

\* a fetch that skipped an unchanged frame of another camera has returned
C14_Witness ==
    /\ pc = "process"
    /\ stage = "plain"
    /\ cameras[cur.cameraID] = cur.md5
    /\ \E f \in files : f[1] # cur.cameraID /\ f[2] = cur.timestamp

\* C15: when checkAndUpdateAlerts finds a record of the camera inside the
\* cool-down window it returns false and leaves the ledger as it was;
\* otherwise it returns true and appends exactly one record (camera,
\* timestamp, first uploaded file id, empty when nothing was uploaded).
C15_LedgerFrame ==
    [][ticks' = ticks + 1 =>
        LET c == report'.camera
            t == report'.timestamp
            ids == report'.driveFileIDs
            found == \E i \in 1..Len(alerts) :
                        /\ alerts[i].CameraName = c
                        /\ alerts[i].Timestamp > t - 7200
        IN IF found
           THEN ~report'.notified /\ alerts' = alerts
           ELSE /\ report'.notified
                /\ alerts' = Append(alerts,
                                    [CameraName |-> c, Timestamp |-> t,
                                     ImageID |-> IF Len(ids) = 0 THEN NoPath
                                                 ELSE ids[1]])]_vars

\* a suppressed detection with two uploaded files, after the alert it is
\* suppressed by
C15_Witness ==
    /\ ticks = 2
    /\ Len(alerts) = 1
    /\ alerts[1].CameraName = report.camera
    /\ ~report.notified
    /\ Len(report.driveFileIDs) = 2

\* C16: after every 50 samples recorded since the last reset timePerSample
\* becomes totalTime/numSamples of those samples and both accumulators are
\* zero again, and before the 50th sample timePerSample is unchanged (the
\* original claim; the code resets on the 51st sample).
C16_ResetEveryFifty ==
    /\ ticks < 50 => timeTracker.timePerSample = <<3, 1>>
    /\ ticks = 50 => /\ timeTracker.numSamples = 0
                     /\ timeTracker.totalTime = 0
                     /\ timeTracker.timePerSample # <<3, 1>>

\* C17: every iteration that reaches recordFilterReport in live mode appends
\* exactly one score row per classified segment, whether or not the filter
\* returns a segment and whether or not the highest score is below 0.5.
C17_OneScoreRowPerSegment ==
    report.camera # NoCam =>
        LET n == Len(report.segments)
            k == Len(scores) - n
        IN /\ report.scoreRows = n
           /\ k >= 0
           /\ \A i \in 1..n :
                /\ scores[k + i].CameraName = report.camera
                /\ scores[k + i].Timestamp = report.timestamp
                /\ BoxOf(scores[k + i]) = BoxOf(report.segments[i])
                /\ scores[k + i].Score = report.segments[i].score
                /\ scores[k + i].MinusMinutes = minusMinutes

\* an image in diff mode whose scores are all below 0.5 has been recorded
C17_Witness ==
    /\ pc = "idle"
    /\ minusMinutes # 0
    /\ report.camera # NoCam
    /\ report.scoreRows = 2
    /\ report.segments[1].score < 500
    /\ Len(scores) = 2

\* the unchanged refetch came at or after the end of the retry window
TimedOut ==
    /\ ResolvedUnchanged
    /\ deferredImageInfo.oldWait + Elapsed >= TimeoutSeconds

\* C18: when a deferred entry times out, it is not put back in the queue,
\* its image file and the refetched image file are deleted, and the
\* iteration ends without classification and without an error.
C18_TimeoutDiscardsQuietly ==
    TimedOut =>
        /\ IsDiscarded
        /\ deferredImageInfo.imgPath \notin files
        /\ cur.imgPath \notin files
        /\ report = NoReport
        /\ pc = "idle"
        /\ err = "none"

\* C19: score, detection and alert rows are written only by an iteration
\* whose fetch, segmentation and classification have completed; a failure of
\* the classification service ends the process with no row written by that
\* iteration.
C19_RowsOnlyAfterClassification ==
    [][/\ (scores' # scores \/ detections' # detections \/ alerts' # alerts)
            => /\ pc = "process"
               /\ cur.cameraID # NoCam
               /\ report = NoReport
               /\ report'.camera = cur.cameraID
               /\ Len(report'.segments) = Len(Boxes)
       /\ (err' = "ClassificationServiceFailure" /\ err # err')
            => /\ pc' = "crashed"
               /\ report' = NoReport
               /\ scores' = scores /\ detections' = detections /\ alerts' = alerts
      ]_vars

\* the classifier failed in the second iteration, after a first one that
\* wrote its rows
C19_Witness ==
    /\ pc = "crashed"
    /\ err = "ClassificationServiceFailure"
    /\ ticks = 2
    /\ report = NoReport
    /\ Len(scores) = Len(Boxes)
    /\ scores[1].Timestamp >= StartTime

\* C20: after a failed download of camera c the retries of the same
\* iteration go to the next scheduled camera and never to c again (the
\* original claim; the retry takes whatever camera the counter names).
C20_NoRetrySameCamera ==
    pc = "fetch" => Selected \notin failed

\* C21: with a heartbeat file configured, every tick of the main loop that has
\* run to its end has touched the heartbeat exactly once.
C21_HeartbeatEveryTick ==
    (pc = "idle" /\ ticks > 0) => report.heartbeats = 1

\* a tick of the plain loop that ran to its end and touched the heartbeat once
C21_PlainTickBeats ==
    pc = "idle" /\ ticks > 0 /\ stage = "plain" /\ report.heartbeats = 1
\* genDiffImageFromDeferred has refetched the camera of the dequeued entry
Resolved ==
    /\ stage = "resolve" /\ pc \in {"process", "idle", "crashed"}
    /\ cur.cameraID # NoCam /\ cur.classifyImgPath = DiffPath(cur.imgPath)

HashDiffers == cur.md5 # deferredImageInfo.md5

\* the difference image was written (recordFilterReport deletes it again)
DiffProduced == DiffPath(cur.imgPath) \in files \/ report.camera # NoCam

StillQueued(info) == \E i \in 1..Len(deferredImages) : deferredImages[i] = info

\* C22: resolving a dequeued entry produces a difference image exactly when the
\* refetched hash differs from the entry's hash; then the entry is no longer
\* queued and its stored file is gone before segmentation; with equal hashes
\* no difference image is produced and nothing is classified in the tick.
C22_DiffIffHashDiffers ==
    Resolved =>
        /\ DiffProduced <=> HashDiffers
        /\ HashDiffers => /\ ~StillQueued(deferredImageInfo)
                          /\ deferredImageInfo.imgPath \notin files
        /\ ~HashDiffers => /\ report.camera = NoCam
                           /\ pc # "process"
\* C23: a requeue appends the unchanged entry at the tail of the queue with its
\* timestamp set to the refetch timestamp and its accumulated wait increased
\* by the elapsed time; camera, image path and hash stay those of the entry.
C23_RequeueAtTail ==
    [][(pc = "fetch" /\ stage = "resolve" /\ Len(deferredImages') > Len(deferredImages))
       => LET n == Len(deferredImages')
              e == deferredImages'[n]
              info == deferredImageInfo
          IN /\ n = Len(deferredImages) + 1
             /\ SubSeq(deferredImages', 1, n - 1) = deferredImages
             /\ e.timestamp = cur'.timestamp
             /\ e.oldWait = info.oldWait + (cur'.timestamp - info.timestamp)
             /\ e.cameraID = info.cameraID
             /\ e.imgPath = info.imgPath
             /\ e.md5 = info.md5]_vars

\* an entry requeued behind another entry after a refetch some seconds later
C23_Witness ==
    /\ Resolved /\ pc = "idle" /\ ~HashDiffers
    /\ Len(deferredImages) >= 2
    /\ deferredImages[Len(deferredImages)].cameraID = deferredImageInfo.cameraID
    /\ deferredImages[Len(deferredImages)].timestamp = cur.timestamp
    /\ deferredImages[Len(deferredImages)].oldWait > deferredImageInfo.oldWait
\* segmentation starts, or a score, detection or alert row is written
WorkStep ==
    \/ pc # "process" /\ pc' = "process"
    \/ scores' # scores \/ detections' # detections \/ alerts' # alerts

\* C24: in diff mode a tick that dequeues no entry, or whose dequeued entry is
\* refetched unchanged, only maintains the queue: it starts no segmentation
\* or classification and writes no score, detection or alert row.
C24_EarlyTicksOnlyMaintainQueue ==
    [][(minusMinutes > 0 /\ WorkStep)
       => /\ stage' = "resolve"
          /\ deferredImageInfo' # NoEntry
          /\ cur'.md5 # deferredImageInfo'.md5]_vars

\* a diff-mode tick that requeued or discarded an unchanged entry and stopped
C24_Witness ==
    /\ minusMinutes > 0 /\ pc = "idle" /\ Resolved /\ ~HashDiffers
    /\ report = NoReport
\* distance between two times of day, around the clock
TimeOfDayDistance(a, b) ==
    Min((a - b) % SecondsPerDay, (b - a) % SecondsPerDay)

\* the rows the history lookup is to use for an image of the camera
HistoryRowsWanted(table, camera, timestamp) ==
    {i \in 1..Len(table) :
        /\ table[i].CameraName = camera
        /\ table[i].Timestamp > timestamp - 3600 * HistoryStartHours
        /\ table[i].Timestamp < timestamp - 3600 * HistoryEndHours
        /\ TimeOfDayDistance(SecondsInDay(table[i].Timestamp),
                             SecondsInDay(timestamp)) < TimeOfDayWindow}

\* C25: at every time of day, also less than an hour from midnight, the history
\* lookup uses exactly the rows of the same camera and box recorded between
\* 3.5 days and 12 hours before the image and within one hour of its time of
\* day.
C25_WindowAroundTimeOfDay ==
    report.queried =>
        LET wanted == HistoryRowsWanted(scores, report.camera, report.timestamp)
        IN /\ report.histRows = Cardinality({BoxOf(scores[i]) : i \in wanted})
           /\ report.fire # NoSegment =>
                 report.fire.HistNumSamples =
                     Cardinality({i \in wanted : BoxOf(scores[i]) = BoxOf(report.fire)})
\* C26: a tick in which the filter returns a candidate writes exactly one
\* Detection row, whether or not the alert is suppressed; a tick in which it
\* returns none writes no Detection row.
C26_OneDetectionPerCandidate ==
    report.camera # NoCam =>
        report.detectionRows = IF report.fire # NoSegment THEN 1 ELSE 0
\* C27: in one detection process with non-decreasing detection timestamps, any
\* two alert ledger records of one camera are at least 7200 seconds apart.
C27_LedgerRecordsApart ==
    \A i, j \in 1..Len(alerts) :
        (i < j /\ alerts[i].CameraName = alerts[j].CameraName)
            => alerts[j].Timestamp - alerts[i].Timestamp >= 7200

\* two records of one camera exactly 7200 seconds apart, and a later detection
\* of that camera suppressed
C27_Witness ==
    /\ Len(alerts) = 2
    /\ alerts[1].CameraName = alerts[2].CameraName
    /\ alerts[2].Timestamp = alerts[1].Timestamp + 7200
    /\ report.camera = alerts[2].CameraName
    /\ report.timestamp > alerts[2].Timestamp
    /\ ~report.notified
\* two timestamps less than the cool-down apart
WithinWindow(t1, t2) == t1 - t2 < 7200 /\ t2 - t1 < 7200

\* C28: detections of one camera made by two processes within 7200 seconds of
\* each other leave at most one ledger record and notify at most once.
C28_OneAlertAcrossProcesses ==
    /\ \A i, j \in 1..Len(alerts) :
          (i # j /\ alerts[i].CameraName = alerts[j].CameraName)
              => ~WithinWindow(alerts[i].Timestamp, alerts[j].Timestamp)
    /\ ~(/\ workers[1].notified /\ workers[2].notified
          /\ workers[1].camera = workers[2].camera
          /\ WithinWindow(workers[1].timestamp, workers[2].timestamp))
\* C29: between two ticks of diff mode the image file of every queued entry
\* exists in the scratch directory.
C29_QueuedFilesExist ==
    (pc = "idle" /\ minusMinutes > 0)
        => \A i \in 1..Len(deferredImages) : deferredImages[i].imgPath \in files
\* the images captured at the early instants
EarlyCaptures ==
    {getImgPath(c, StartTime + o) : c \in Cams, o \in DrainEarly(1) \cup DrainEarly(10)}

InQueue(path) == \E i \in 1..Len(deferredImages) : deferredImages[i].imgPath = path

\* C30: while the loop keeps iterating and time advances, every deferred entry
\* is eventually out of the queue for good, by a difference image or by the
\* timeout discard; an unchanged camera's entry is not requeued forever.
C30_EntriesLeaveForGood ==
    \A path \in EarlyCaptures : <>[](pc = "crashed" \/ ~InQueue(path))

\* an entry that was requeued before has been dequeued again, found unchanged
\* and discarded by the timeout
C30_Witness ==
    /\ pc = "idle" /\ stage = "resolve"
    /\ deferredImageInfo.oldWait > 0
    /\ cur.md5 = deferredImageInfo.md5
    /\ ~InQueue(deferredImageInfo.imgPath)
\* the step appends an entry that is not the dequeued one put back
AdmitsCamera ==
    /\ Len(deferredImages') > Len(deferredImages)
    /\ deferredImages'[Len(deferredImages')].imgPath # deferredImageInfo.imgPath

\* C31: a camera is admitted to the queue only in a tick whose queue-full test
\* was false at its start; a tick whose test was true takes the head off the
\* queue and later appends at most that entry again, so the queue does not
\* get longer in it.
C31_AdmitOnlyWhenNotFull ==
    [][/\ AdmitsCamera => (~queueFull /\ stage = "add")
       /\ (ticks' = ticks + 1 /\ queueFull')
             => Len(deferredImages') = Len(deferredImages) - 1
       /\ (ticks' = ticks /\ queueFull /\ deferredImages' # deferredImages)
             => /\ pc = "fetch" /\ stage = "resolve" /\ pc' = "idle"
                /\ Len(deferredImages') = Len(deferredImages) + 1
                /\ SubSeq(deferredImages', 1, Len(deferredImages)) = deferredImages
                /\ deferredImages'[Len(deferredImages')].imgPath
                      = deferredImageInfo.imgPath]_vars

\* a tick that found the queue full has put the dequeued entry back and ended
C31_Witness ==
    /\ queueFull /\ pc = "idle" /\ stage = "resolve"
    /\ Len(deferredImages) >= 1
    /\ deferredImages[Len(deferredImages)].imgPath = deferredImageInfo.imgPath
\* the row is of the image the last recordFilterReport handled
OfThisTick(row) ==
    row.CameraName = report.camera /\ row.Timestamp = report.timestamp

\* C32: every alert ledger record has a Detection row of the same camera and
\* timestamp, written before it in the same tick; in a tick the score rows are
\* written first, then the filter runs, then the Detection row is written,
\* then the ledger is checked and written and the notification goes out, and
\* the files are deleted last.
C32_RecordOrder ==
    /\ \A i \in 1..Len(alerts) : \E j \in 1..Len(detections) :
          /\ detections[j].CameraName = alerts[i].CameraName
          /\ detections[j].Timestamp = alerts[i].Timestamp
          /\ detections[j].ImageID = alerts[i].ImageID
    /\ report.notified <=> report.alertRows = 1
    /\ report.alertRows = 1
          => /\ report.detectionRows = 1
             /\ OfThisTick(alerts[Len(alerts)])
    /\ report.detectionRows = 1
          => /\ report.fire # NoSegment /\ report.queried
             /\ OfThisTick(detections[Len(detections)])
    /\ report.queried => report.scoreRows = Len(report.segments)
    \* stopped in drawFireBox: the score rows are there, nothing later is
    /\ (report.fire # NoSegment /\ report.detectionRows = 0)
          => /\ pc = "crashed" /\ report.alertRows = 0
             /\ report.scoreRows = Len(report.segments)
             /\ cur.classifyImgPath \in files
    \* stopped in deleteImageFiles: every row of the tick is there
    /\ (pc = "crashed" /\ report.camera # NoCam /\ report.fire = NoSegment)
          => report.scoreRows = Len(report.segments)
    \* the tick ran to its end: the classified image is deleted
    /\ (pc = "idle" /\ report.camera # NoCam) => cur.classifyImgPath \notin files

\* a tick that wrote its score rows, a Detection row and a ledger record,
\* notified and deleted its files
C32_Witness ==
    /\ pc = "idle" /\ report.notified
    /\ report.scoreRows = 2 /\ report.detectionRows = 1 /\ report.alertRows = 1
    /\ cur.imgPath \notin files
\* the rows the query of the last filter returned for a box: same camera,
\* Timestamp and SecondsInDay inside the bounds the query states
LookupRows(box) ==
    {i \in 1..Len(scores) :
        /\ scores[i].CameraName = report.camera
        /\ scores[i].Timestamp > report.timestamp - 302400
        /\ scores[i].Timestamp < report.timestamp - 43200
        /\ scores[i].SecondsInDay > (report.timestamp % 86400) - 3600
        /\ scores[i].SecondsInDay < (report.timestamp % 86400) + 3600
        /\ BoxOf(scores[i]) = box}

\* C33: a segment the filter returns is one of the image's segments, its box
\* has at least one row in the lookup window, its score is strictly above the
\* threshold computed from the maximum of those rows, and it carries their
\* count, maximum and average.
C33_SelectedHasHistory ==
    report.fire # NoSegment =>
        LET rows == LookupRows(BoxOf(report.fire))
        IN /\ \E i \in 1..Len(report.segments) :
                 /\ BoxOf(report.segments[i]) = BoxOf(report.fire)
                 /\ report.segments[i].score = report.fire.score
           /\ rows # {}
           /\ report.fire.HistNumSamples = Cardinality(rows)
           /\ \E i \in rows : scores[i].Score = report.fire.HistMax
           /\ \A i \in rows : scores[i].Score <= report.fire.HistMax
           /\ report.fire.HistAvg = <<SumScores(scores, rows), Cardinality(rows)>>
           /\ 2 * report.fire.score > report.fire.HistMax + 1000
           /\ report.fire.score > report.fire.HistMax + 200

\* a returned segment whose box has two history rows, 0.3 and 0.75
C33_Witness ==
    /\ report.fire # NoSegment
    /\ report.fire.HistNumSamples = 2
    /\ report.fire.HistMax = 750
    /\ report.fire.HistAvg = <<1050, 2>>
\* C34: with archived images no tick writes a score, detection or alert row
\* or notifies, the deferred queue stays empty, and a tick that classified an
\* image has deleted the image and the classified image when it ends.
C34_ArchiveWritesNothing ==
    [][/\ scores' = scores /\ detections' = detections /\ alerts' = alerts
       /\ ~report'.notified
       /\ report'.scoreRows = 0 /\ report'.detectionRows = 0
       /\ report'.alertRows = 0
       /\ deferredImages' = <<>>
       /\ (pc = "process" /\ pc' = "idle")
             => /\ report'.camera = cur.cameraID
                /\ cur.imgPath \in files /\ cur.imgPath \notin files'
                /\ cur.classifyImgPath \notin files']_vars

\* a diff-mode tick over archived images that classified a score above 0.5
\* against a history it would clear, and ended with the scratch directory empty
C34_Witness ==
    /\ stage = "archive" /\ pc = "idle" /\ minusMinutes = 1
    /\ report.camera = 1
    /\ Len(report.segments) = 2 /\ report.segments[1].score = 920
    /\ Len(scores) = 1
    /\ files = {}
\* the tick has entered recordFilterReport in this step
ReachesRecord == pc = "process" /\ report.camera = NoCam /\ report'.camera # NoCam

\* one sample was added to the tracker in this step
Sampled ==
    \/ /\ timeTracker'.numSamples = timeTracker.numSamples + 1
       /\ timeTracker'.totalTime >= timeTracker.totalTime
       /\ timeTracker'.timePerSample = timeTracker.timePerSample
    \/ /\ timeTracker.numSamples = SampleWindow
       /\ timeTracker'.numSamples = 0 /\ timeTracker'.totalTime = 0

\* the rate the tracker reports has changed in this step
RateChanged == timeTracker'.timePerSample # timeTracker.timePerSample

TrackerReset == timeTracker'.numSamples = 0 /\ timeTracker'.totalTime = 0

\* the sample count stays within 0..50 and the rate changes only in the
\* update that resets the accumulators
C35_CountWithinWindow ==
    [][/\ timeTracker'.numSamples \in 0..SampleWindow
       /\ Sampled
       /\ RateChanged => TrackerReset]_vars

\* the 51st sample has reset the accumulators and replaced the rate
C35_ResetSeen ==
    ticks = SampleWindow + 1 /\ timeTracker.numSamples = 0
      /\ timeTracker.timePerSample # initializeTimeTracker.timePerSample

\* C35: the tracker is updated exactly once in each tick that reaches
\* recordFilterReport and is unchanged by every other step; its sample count
\* is between 0 and 50, and timePerSample changes only in the update that
\* resets the accumulators.
C35_TrackerOncePerRecord ==
    [][/\ ReachesRecord => Sampled
       /\ ~ReachesRecord => timeTracker' = timeTracker
       /\ timeTracker'.numSamples \in 0..SampleWindow
       /\ RateChanged => TrackerReset]_vars
====
